---- MODULE Spec2Model ----
(***************************************************************************)
(* A model of sap_http: the URL parser, the header store, the request and  *)
(* response models, the wire codec, the blocking client and the server.    *)
(*                                                                         *)
(* A byte string (std::string, std::string_view) is a sequence of          *)
(* one-character strings; positions are 0-based as in the C++ source.      *)
(* A value computed once and used several times is handed on as an         *)
(* operator parameter (F(x) == F_at(x, g(x))) in place of a LET.           *)
(***************************************************************************)
EXTENDS Integers, Sequences, FiniteSets, TLC

(***************************************************************************)
(* std::string primitives                                                  *)
(***************************************************************************)

\* std::string::npos (SIZE_MAX): a value above every length that occurs.
npos == 1000000000

Min2(a, b) == IF a <= b THEN a ELSE b

SetMin(S) == CHOOSE m \in S : \A x \in S : m <= x

\* The least position of a set of positions, npos when there is none.
FirstOf(hits) == IF hits = {} THEN npos ELSE SetMin(hits)

\* s.substr(pos, n): at most n bytes from 0-based pos, clamped to the end.
substr(s, pos, n) == SubSeq(s, pos + 1, Min2(Len(s), pos + n))

\* s.find(pat, pos): the first 0-based index >= pos where pat occurs, or npos.
find(s, pat, pos) ==
    FirstOf({i \in pos..(Len(s) - Len(pat)) : SubSeq(s, i + 1, i + Len(pat)) = pat})

\* s.erase(pos, n)
erase(s, pos, n) == SubSeq(s, 1, pos) \o SubSeq(s, pos + n + 1, Len(s))

\* a - b on size_t: a difference below zero wraps to a value above every length.
SizeSub(a, b) == IF a >= b THEN a - b ELSE npos

UpperChars ==
    <<"A","B","C","D","E","F","G","H","I","J","K","L","M",
      "N","O","P","Q","R","S","T","U","V","W","X","Y","Z">>

LowerChars ==
    <<"a","b","c","d","e","f","g","h","i","j","k","l","m",
      "n","o","p","q","r","s","t","u","v","w","x","y","z">>

DigitChars == <<"0","1","2","3","4","5","6","7","8","9">>

\* ::tolower on one byte.
tolower(c) ==
    IF \E i \in 1..26 : UpperChars[i] = c
    THEN LowerChars[CHOOSE i \in 1..26 : UpperChars[i] = c]
    ELSE c

\* std::transform(begin, end, begin, ::tolower)
lower_key(key) == [i \in 1..Len(key) |-> tolower(key[i])]

isspace(c) == c \in {" ", "\t", "\n", "\r", "\f"}

isdigit(c) == \E i \in 1..10 : DigitChars[i] = c

DigitVal(c) == (CHOOSE i \in 1..10 : DigitChars[i] = c) - 1

\* The bytes of the model in ASCII order: std::map<std::string, ...> iterates
\* its keys in the order of std::less<std::string>, a byte-wise comparison.
AsciiOrder ==
    <<"\t","\n","\f","\r"," ","\"","*","+",",","-",".","/">> \o DigitChars \o
    <<":","=","?">> \o UpperChars \o <<"_">> \o LowerChars \o <<"{","}">>

CharCode(c) == CHOOSE i \in 1..Len(AsciiOrder) : AsciiOrder[i] = c

RECURSIVE StrLess(_, _)
\* a < b for std::string (lexicographic on bytes).
StrLess(a, b) ==
    IF b = <<>> THEN FALSE
    ELSE IF a = <<>> THEN TRUE
    ELSE IF a[1] # b[1] THEN CharCode(a[1]) < CharCode(b[1])
    ELSE StrLess(Tail(a), Tail(b))

RECURSIVE to_string(_)
\* std::to_string on a non-negative integer.
to_string(n) ==
    IF n < 10 THEN <<DigitChars[n + 1]>>
    ELSE to_string(n \div 10) \o <<DigitChars[(n % 10) + 1]>>

RECURSIVE SplitLines(_)
\* s cut at the '\n' at 0-based nl (npos: there is none).
SplitAt(s, nl) ==
    IF nl = npos THEN <<s>>
    ELSE <<substr(s, 0, nl)>> \o SplitLines(substr(s, nl + 1, npos))

\* The lines successive std::getline(stream, line) calls deliver, until the
\* call that fails: each line runs to the next '\n', which is dropped; a
\* stream that is at its end delivers nothing more.
SplitLines(s) == IF s = <<>> THEN <<>> ELSE SplitAt(s, find(s, <<"\n">>, 0))

\* The least position of a set of positions, len when there is none.
FirstOr(hits, len) == IF hits = {} THEN len ELSE SetMin(hits)

\* The first 0-based index >= pos of s holding a byte that is (ws = TRUE) or is
\* not (ws = FALSE) white space, or Len(s).
Scan(s, pos, ws) == FirstOr({i \in pos..(Len(s) - 1) : isspace(s[i + 1]) = ws}, Len(s))

\* The first 0-based index >= pos of s holding a byte that is no digit, or Len(s).
ScanDigits(s, pos) == FirstOr({i \in pos..(Len(s) - 1) : ~isdigit(s[i + 1])}, Len(s))

\* An input string stream: the text, the read position, the fail bit.
IStream(s) == [str |-> s, pos |-> 0, fail |-> FALSE]

\* The word of st.str from b to e.
WordTo(st, b, e) == [st |-> [st EXCEPT !.pos = e], word |-> substr(st.str, b, e - b)]

\* The word starting at the first byte b that is no white space.
WordFrom(st, b) ==
    IF b = Len(st.str)
    THEN [st |-> [st EXCEPT !.pos = b, !.fail = TRUE], word |-> <<>>]
    ELSE WordTo(st, b, Scan(st.str, b, TRUE))

\* stream >> std::string : skips white space, reads up to the next white space;
\* fails when no byte is left.
ExtractWord(st) ==
    IF st.fail THEN [st |-> st, word |-> <<>>]
    ELSE WordFrom(st, Scan(st.str, st.pos, FALSE))

RECURSIVE StripZeros(_)
StripZeros(d) == IF Len(d) > 1 /\ d[1] = "0" THEN StripZeros(Tail(d)) ELSE d

RECURSIVE DecLess(_, _)
\* a < b for two decimal numerals without leading zeros.
DecLess(a, b) ==
    IF Len(a) # Len(b) THEN Len(a) < Len(b)
    ELSE IF a = <<>> THEN FALSE
    ELSE IF a[1] # b[1] THEN DigitVal(a[1]) < DigitVal(b[1])
    ELSE DecLess(Tail(a), Tail(b))

RECURSIVE DecVal(_)
\* The value of a decimal numeral of at most 10 digits that fits an int.
DecVal(d) == IF d = <<>> THEN 0 ELSE 10 * DecVal(SubSeq(d, 1, Len(d) - 1)) + DigitVal(d[Len(d)])

RECURSIVE DecSubB(_, _, _)
\* The digits of a - b - borrow, the last digit being x modulo 10.
DecSubStep(a, b, x) ==
    DecSubB(SubSeq(a, 1, Len(a) - 1), SubSeq(b, 1, Len(b) - 1), IF x < 0 THEN 1 ELSE 0)
    \o <<DigitChars[((x + 10) % 10) + 1]>>

\* a - b - borrow on two decimal numerals of the same length, a >= b.
DecSubB(a, b, borrow) ==
    IF a = <<>> THEN <<>>
    ELSE DecSubStep(a, b, DigitVal(a[Len(a)]) - DigitVal(b[Len(b)]) - borrow)

RECURSIVE PadZeros(_, _)
PadZeros(d, n) == IF Len(d) >= n THEN d ELSE PadZeros(<<"0">> \o d, n)

\* ULLONG_MAX = 2^64 - 1, and 2^64, as decimal numerals.
UllongMaxDigits == <<"1","8","4","4","6","7","4","4","0","7","3","7","0","9","5","5","1","6","1","5">>

TwoPow64Digits == <<"1","8","4","4","6","7","4","4","0","7","3","7","0","9","5","5","1","6","1","6">>

\* INT_MAX = 2^31 - 1 as a decimal numeral.
IntMaxDigits == <<"2","1","4","7","4","8","3","6","4","7">>

\* The magnitude of INT_MIN = -2^31 as a decimal numeral.
IntMinDigits == <<"2","1","4","7","4","8","3","6","4","8">>

\* A size_t as the model holds it: exact below npos, and npos for every value
\* from npos up (no string of the model is that long, so every comparison with
\* a length and every substr count comes out as it does in 64 bits).
SizeOf(d) == IF Len(d) > 9 THEN npos ELSE DecVal(d)

\* The sign byte at 0-based b of s, "" when there is none.
SignAt(s, b) == IF b < Len(s) /\ s[b + 1] \in {"+", "-"} THEN s[b + 1] ELSE ""

\* A numeral read from s: its sign, where its digits start (d0) and end (e),
\* and the digits without leading zeros.
NumeralTo(s, sgn, d0, e) ==
    [sgn |-> sgn, d0 |-> d0, e |-> e, digs |-> StripZeros(substr(s, d0, e - d0))]

NumeralDigits(s, sgn, d0) == NumeralTo(s, sgn, d0, ScanDigits(s, d0))

NumeralFrom(s, b) ==
    NumeralDigits(s, SignAt(s, b), IF SignAt(s, b) = "" THEN b ELSE b + 1)

\* What strtoull and num_get read from 0-based pos of s: white space, an
\* optional sign, digits.
ReadNumeral(s, pos) == NumeralFrom(s, Scan(s, pos, FALSE))

StoullOf(num) ==
    IF num.e = num.d0 THEN [kind |-> "invalid_argument", val |-> 0]
    ELSE IF DecLess(UllongMaxDigits, num.digs) THEN [kind |-> "out_of_range", val |-> 0]
    ELSE IF num.sgn = "-" /\ num.digs # <<"0">>
    THEN [kind |-> "ok",
          val |-> SizeOf(StripZeros(DecSubB(TwoPow64Digits, PadZeros(num.digs, 20), 0)))]
    ELSE [kind |-> "ok", val |-> SizeOf(num.digs)]

\* std::stoull(s) (strtoull, base 10): skips leading white space, takes an
\* optional sign and the digits that follow; throws std::invalid_argument when
\* there is no digit and std::out_of_range when the magnitude exceeds
\* ULLONG_MAX; a '-' negates the value modulo 2^64.
stoull(s) == StoullOf(ReadNumeral(s, 0))

IntOf(st, num) ==
    IF num.e = num.d0
    THEN [st |-> [st EXCEPT !.pos = num.d0, !.fail = TRUE], val |-> 0]
    ELSE IF DecLess(IntMaxDigits, num.digs)
    THEN [st |-> [st EXCEPT !.pos = num.e,
                            !.fail = ~(num.sgn = "-" /\ num.digs = IntMinDigits)],
          val |-> IF num.sgn = "-" THEN (-2147483647) - 1 ELSE 2147483647]
    ELSE [st |-> [st EXCEPT !.pos = num.e],
          val |-> IF num.sgn = "-" THEN 0 - DecVal(num.digs) ELSE DecVal(num.digs)]

\* stream >> int : skips white space, takes an optional sign and digits. A
\* stream that has failed leaves the value as it was (old). With no digit the
\* value is 0 and the stream fails; out of the range of int the value is
\* INT_MAX or INT_MIN and the stream fails.
ExtractInt(st, old) ==
    IF st.fail THEN [st |-> st, val |-> old]
    ELSE IntOf(st, ReadNumeral(st.str, st.pos))

\* std::getline(stream, line) on a stream holding no '\n': the rest of the
\* text; nothing when the stream has failed or is at its end.
ExtractRest(st) ==
    IF st.fail \/ st.pos >= Len(st.str) THEN <<>>
    ELSE substr(st.str, st.pos, npos)

(***************************************************************************)
(* Header store, URL, Request, Response                                    *)
(***************************************************************************)

\* Headers::data, a std::map: a function from its (lower-case) keys to values.
NoHeaders == <<>>

\* data[k] = value
MapPut(data, k, value) ==
    [x \in (DOMAIN data) \cup {k} |-> IF x = k THEN value ELSE data[x]]

\* it = data.find(k); (it != data.end()) ? it->second : ""
MapGet(data, k) == IF k \in DOMAIN data THEN data[k] ELSE <<>>

\* Headers::set
HeadersSet(data, key, value) == MapPut(data, lower_key(key), value)

\* Headers::get looking the key up as given, not lower-cased.
HeadersGetAsGiven(data, key) == MapGet(data, key)

\* Headers::get
HeadersGet(data, key) == MapGet(data, lower_key(key))

\* Headers::has
HeadersHas(data, key) == lower_key(key) \in DOMAIN data

\* The least key of a nonempty set of keys.
LeastKey(K) == CHOOSE k \in K : \A o \in K \ {k} : StrLess(k, o)

RECURSIVE SortedKeys(_)
SortedFrom(K, m) == <<m>> \o SortedKeys(K \ {m})

\* The keys of a std::map in iteration order.
SortedKeys(K) == IF K = {} THEN <<>> ELSE SortedFrom(K, LeastKey(K))

s_scheme_sep == <<":","/","/">>
s_https == <<"h","t","t","p","s">>
s_443 == <<"4","4","3">>
s_80 == <<"8","0">>
s_slash == <<"/">>
s_qmark == <<"?">>
s_colon == <<":">>
s_CRLF == <<"\r","\n">>
s_CRLFCRLF == <<"\r","\n","\r","\n">>
s_LF == <<"\n">>
s_CR == <<"\r">>
s_SP == <<" ">>
s_colon_sp == <<":"," ">>

\* URL()
EmptyURL == [scheme |-> <<>>, host |-> <<>>, port |-> <<>>, path |-> <<>>, query |-> <<>>]

FromPathAt(path_and_query, query_pos) ==
    IF query_pos # npos
    THEN [EmptyURL EXCEPT !.path = substr(path_and_query, 0, query_pos),
                          !.query = substr(path_and_query, query_pos, npos)]
    ELSE [EmptyURL EXCEPT !.path = path_and_query]

\* URL::from_path
from_path(path_and_query) == FromPathAt(path_and_query, find(path_and_query, s_qmark, 0))

\* url.cpp lines 35-42: host and port from the host segment.
HostOf(host_port, port_pos) ==
    IF port_pos # npos THEN substr(host_port, 0, port_pos) ELSE host_port

\* Lines 38-42 with the default port of http for every scheme.
PortOfHttpOnly(host_port, port_pos, scheme) ==
    IF port_pos # npos THEN substr(host_port, port_pos + 1, npos) ELSE s_80

PortOf(host_port, port_pos, scheme) ==
    IF port_pos # npos THEN substr(host_port, port_pos + 1, npos)
    ELSE IF scheme = s_https THEN s_443 ELSE s_80

\* url.cpp lines 44-50: the path; path_end - path_start is a size_t.
PathOf(raw_url, path_start, query_start) ==
    IF path_start # npos
    THEN substr(raw_url, path_start,
                SizeSub(IF query_start # npos THEN query_start ELSE Len(raw_url),
                        path_start))
    ELSE s_slash

\* url.cpp lines 52-54: the query.
QueryOf(raw_url, query_start) ==
    IF query_start # npos THEN substr(raw_url, query_start, npos) ELSE <<>>

UrlOfParts(raw_url, scheme, host_port, port_pos, path_start, query_start) ==
    [scheme |-> scheme,
     host   |-> HostOf(host_port, port_pos),
     port   |-> PortOf(host_port, port_pos, scheme),
     path   |-> PathOf(raw_url, path_start, query_start),
     query  |-> QueryOf(raw_url, query_start)]

UrlOfSegment(raw_url, scheme, host_port, path_start, query_start) ==
    UrlOfParts(raw_url, scheme, host_port, find(host_port, s_colon, 0),
               path_start, query_start)

\* url.cpp lines 30-34: auto host_end = std::min(path_start, query_start); ...
HostEnd(raw_url, path_start, query_start) ==
    IF Min2(path_start, query_start) = npos THEN Len(raw_url)
    ELSE Min2(path_start, query_start)

UrlAfterScheme(raw_url, scheme_end, path_start, query_start) ==
    UrlOfSegment(raw_url, substr(raw_url, 0, scheme_end),
                 substr(raw_url, scheme_end + 3,
                        HostEnd(raw_url, path_start, query_start) - (scheme_end + 3)),
                 path_start, query_start)

ParseAt(raw_url, scheme_end) ==
    IF scheme_end = npos
    THEN [ok |-> FALSE, error |-> "Invalid URL: missing scheme"]
    ELSE [ok |-> TRUE,
          value |-> UrlAfterScheme(raw_url, scheme_end,
                                   find(raw_url, s_slash, scheme_end + 3),
                                   find(raw_url, s_qmark, scheme_end + 3))]

\* URL::parse looking for ":/" where the code looks for "://".
URLparseColonSlash(raw_url) == ParseAt(raw_url, find(raw_url, <<":", "/">>, 0))

\* URL::parse: a stl::result<URL>.
URLparse(raw_url) == ParseAt(raw_url, find(raw_url, s_scheme_sep, 0))

\* URL::full_path
full_path(u) == u.path \o u.query

s_UserAgent == <<"U","s","e","r","-","A","g","e","n","t">>
s_cpp_http == <<"c","p","p","-","h","t","t","p","/","1",".","0">>
s_Accept == <<"A","c","c","e","p","t">>
s_star == <<"*","/","*">>
s_ContentLength == <<"C","o","n","t","e","n","t","-","L","e","n","g","t","h">>
s_ContentType == <<"C","o","n","t","e","n","t","-","T","y","p","e">>
s_text_plain == <<"t","e","x","t","/","p","l","a","i","n">>
s_content_length == <<"c","o","n","t","e","n","t","-","l","e","n","g","t","h">>
s_transfer_encoding == <<"t","r","a","n","s","f","e","r","-","e","n","c","o","d","i","n","g">>
s_chunked == <<"c","h","u","n","k","e","d">>

\* Request::Request(EMethod, URL)
NewRequest(m, u) ==
    [method  |-> m,
     url     |-> u,
     headers |-> IF u.host # <<>>
                 THEN HeadersSet(HeadersSet(NoHeaders, s_UserAgent, s_cpp_http), s_Accept, s_star)
                 ELSE NoHeaders,
     body    |-> <<>>]

\* Request::set_header
set_header(req, key, value) == [req EXCEPT !.headers = HeadersSet(req.headers, key, value)]

\* Request::set_body
set_body(req, data) ==
    [req EXCEPT !.body = data,
                !.headers = IF ~HeadersHas(req.headers, s_ContentLength)
                            THEN HeadersSet(req.headers, s_ContentLength, to_string(Len(data)))
                            ELSE req.headers]

\* Response::Response()
DefaultResponse == [status_code |-> 0, status_text |-> <<>>, headers |-> NoHeaders, body |-> <<>>]

\* Response::Response(i32 code, std::string body_content)
NewResponse(code, body_content) ==
    [status_code |-> code,
     status_text |-> <<>>,
     headers     |-> HeadersSet(HeadersSet(NoHeaders, s_ContentLength,
                                           to_string(Len(body_content))),
                                s_ContentType, s_text_plain),
     body        |-> body_content]

\* enum class EMethod
EMethod == {"GET", "POST", "PUT", "DELETE", "HEAD", "PATCH", "OPTIONS"}

s_GET == <<"G","E","T">>
s_POST == <<"P","O","S","T">>
s_PUT == <<"P","U","T">>
s_DELETE == <<"D","E","L","E","T","E">>
s_HEAD == <<"H","E","A","D">>
s_PATCH == <<"P","A","T","C","H">>
s_OPTIONS == <<"O","P","T","I","O","N","S">>

method_to_string(m) ==
    CASE m = "GET" -> s_GET
      [] m = "POST" -> s_POST
      [] m = "PUT" -> s_PUT
      [] m = "DELETE" -> s_DELETE
      [] m = "HEAD" -> s_HEAD
      [] m = "PATCH" -> s_PATCH
      [] m = "OPTIONS" -> s_OPTIONS
      [] OTHER -> s_GET

string_to_method(s) ==
    CASE s = s_GET -> "GET"
      [] s = s_POST -> "POST"
      [] s = s_PUT -> "PUT"
      [] s = s_DELETE -> "DELETE"
      [] s = s_HEAD -> "HEAD"
      [] s = s_PATCH -> "PATCH"
      [] s = s_OPTIONS -> "OPTIONS"
      [] OTHER -> "GET"

RECURSIVE HeaderLines(_, _)
\* for (const auto &[key, value] : headers.data) ss << key << ": " << value << "\r\n";
HeaderLines(data, keys) ==
    IF keys = <<>> THEN <<>>
    ELSE keys[1] \o s_colon_sp \o data[keys[1]] \o s_CRLF \o HeaderLines(data, Tail(keys))

s_HTTP11_CRLF == <<" ","H","T","T","P","/","1",".","1","\r","\n">>
s_Host == <<"H","o","s","t",":"," ">>

\* Client::send_request, lines 44-55: the bytes of a request (request_str).
SerializeRequest(req) ==
    method_to_string(req.method) \o s_SP \o full_path(req.url) \o s_HTTP11_CRLF
    \o s_Host \o req.url.host \o s_CRLF
    \o HeaderLines(req.headers, SortedKeys(DOMAIN req.headers))
    \o s_CRLF
    \o req.body

(***************************************************************************)
(* Wire codec: the header block of a response or a request                 *)
(***************************************************************************)

\* if (!value.empty() && value[0] == ' ') value.erase(0, 1);
StripLeadingSpace(value) ==
    IF value # <<>> /\ value[1] = " " THEN Tail(value) ELSE value

\* if (line.back() == '\r') line.pop_back();
StripTrailingCR(line) ==
    IF line[Len(line)] = "\r" THEN SubSeq(line, 1, Len(line) - 1) ELSE line

\* A header line with its ':' at 0-based colon (npos: none) into the headers.
HeaderAt(headers, line, colon) ==
    IF colon # npos
    THEN HeadersSet(headers, substr(line, 0, colon),
                    StripLeadingSpace(substr(line, colon + 1, npos)))
    ELSE headers

\* The body of the header loop on one line (its trailing '\r' stripped).
HeaderLine(headers, line) == HeaderAt(headers, line, find(line, s_colon, 0))

RECURSIVE ParseHeaderLines(_, _)
\* while (std::getline(iss, line) && !line.empty() && line != "\r") { ... }
\* over the lines still to be read: the headers set, and the lines left after
\* the line that ended the loop.
ParseHeaderLines(headers, lines) ==
    IF lines = <<>> THEN [headers |-> headers, rest |-> <<>>]
    ELSE IF lines[1] = <<>> \/ lines[1] = s_CR
    THEN [headers |-> headers, rest |-> Tail(lines)]
    ELSE ParseHeaderLines(HeaderLine(headers, StripTrailingCR(lines[1])), Tail(lines))

\* resp after status_stream >> http_version >> resp.status_code left the
\* stream and value code, and std::getline(status_stream, resp.status_text).
StatusAfterCode(resp, code) ==
    [resp EXCEPT !.status_code = code.val,
                 !.status_text = StripLeadingSpace(ExtractRest(code.st))]

\* Client::read_response, lines 87-95: the status line.
ParseStatusLine(resp, line) ==
    StatusAfterCode(resp, ExtractInt(ExtractWord(IStream(line)).st, resp.status_code))

\* Lines 96-108: the header lines into the response r1.
WithHeaders(r1, lines) ==
    [r1 EXCEPT !.headers = ParseHeaderLines(r1.headers, lines).headers]

HeadOfLines(resp, lines) ==
    IF lines = <<>> THEN resp
    ELSE WithHeaders(ParseStatusLine(resp, lines[1]), Tail(lines))

\* Client::read_response, lines 83-108: the header section into resp.
ParseResponseHead(resp, header_section) == HeadOfLines(resp, SplitLines(header_section))

(***************************************************************************)
(* Client::read_response                                                   *)
(***************************************************************************)

\* char chunk[4096]
ChunkSize == 4096

\* The locals of read_response before the first recv.
ReadStart ==
    [buffer |-> <<>>, headers_done |-> FALSE, content_length |-> 0,
     is_chunked |-> FALSE, resp |-> DefaultResponse]

\* Lines 111-114: content_length after the header block; std::stoull may throw.
ParseContentLength(cl) ==
    IF cl # <<>> THEN stoull(cl) ELSE [kind |-> "ok", val |-> 0]

\* Lines 115-118.
DetectChunked(te) == find(te, s_chunked, 0) # npos

\* Lines 111-118 with the header block parsed (r1) and content-length read
\* (cl); thrown is the exception that leaves read_response, or "".
AfterHead(r1, cl) ==
    IF cl.kind # "ok"
    THEN [rr |-> r1, thrown |-> cl.kind]
    ELSE [rr |-> [r1 EXCEPT
                    !.content_length = cl.val,
                    !.is_chunked =
                        DetectChunked(HeadersGet(r1.resp.headers, s_transfer_encoding))],
          thrown |-> ""]

\* Lines 109-111 with the header block parsed into resp.
HeadParsed(rr, buf, header_end, resp) ==
    AfterHead([rr EXCEPT !.buffer = erase(buf, 0, header_end + 4),
                         !.headers_done = TRUE,
                         !.resp = resp],
              ParseContentLength(HeadersGet(resp.headers, s_content_length)))

\* Lines 80-120 with buffer.find("\r\n\r\n") = header_end.
AtTerminator(rr, buf, header_end) ==
    IF rr.headers_done \/ header_end = npos
    THEN [rr |-> [rr EXCEPT !.buffer = buf], thrown |-> ""]
    ELSE HeadParsed(rr, buf, header_end,
                    ParseResponseHead(rr.resp, substr(buf, 0, header_end)))

Appended(rr, buf) == AtTerminator(rr, buf, find(buf, s_CRLFCRLF, 0))

\* Lines 79-120 with the header terminator looked for in the bytes of this
\* recv only, not in the buffer.
AppendAndParseChunkOnly(rr, chunk) ==
    AtTerminator(rr, rr.buffer \o chunk,
                 IF find(chunk, s_CRLFCRLF, 0) = npos THEN npos
                 ELSE Len(rr.buffer) + find(chunk, s_CRLFCRLF, 0))

\* Lines 79-120: buffer.append(chunk, n) and, until the headers are done, the
\* search for the header terminator and the parse of the header block.
AppendAndParse(rr, chunk) == Appended(rr, rr.buffer \o chunk)

\* Lines 121-122 with > for >=: a body of exactly the declared length is not
\* taken as complete.
FrameCompleteStrict(rr) ==
    /\ rr.headers_done
    /\ ~rr.is_chunked
    /\ rr.content_length > 0
    /\ Len(rr.buffer) > rr.content_length

\* Lines 121-122: the body is complete by its declared length.
FrameComplete(rr) ==
    /\ rr.headers_done
    /\ ~rr.is_chunked
    /\ rr.content_length > 0
    /\ Len(rr.buffer) >= rr.content_length

\* Lines 123 and 134: buffer.substr(0, content_length)
BodyByLength(rr) == substr(rr.buffer, 0, rr.content_length)

\* Lines 131-135 without the branch for content_length == 0.
BodyAtEndByLengthOnly(rr) ==
    IF ~rr.is_chunked THEN BodyByLength(rr) ELSE rr.resp.body

\* Lines 131-135: the body when the loop has ended.
BodyAtEnd(rr) ==
    IF ~rr.is_chunked /\ rr.content_length = 0 /\ rr.buffer # <<>>
    THEN rr.buffer
    ELSE IF ~rr.is_chunked /\ rr.content_length > 0
    THEN BodyByLength(rr)
    ELSE rr.resp.body

\* Lines 128-136: what read_response returns once its loop has ended.
ReadResult(rr) ==
    IF ~rr.headers_done
    THEN [kind |-> "error", error |-> "Failed to parse response headers"]
    ELSE [kind |-> "value", value |-> [rr.resp EXCEPT !.body = BodyAtEnd(rr)]]

\* Lines 121-126 after lines 79-120 gave a.
AfterAppend(a) ==
    IF a.thrown # "" THEN [rr |-> a.rr, ctl |-> "throw", thrown |-> a.thrown]
    ELSE IF FrameComplete(a.rr)
    THEN [rr |-> [a.rr EXCEPT !.resp.body = BodyByLength(a.rr)],
          ctl |-> "break", thrown |-> ""]
    ELSE [rr |-> a.rr, ctl |-> "continue", thrown |-> ""]

\* One pass of the loop of read_response on n > 0 received bytes (lines 79-126):
\* the locals after it and how it ends: "continue", "break" or "throw".
ReadIteration(rr, chunk) == AfterAppend(AppendAndParse(rr, chunk))

(***************************************************************************)
(* State                                                                   *)
(***************************************************************************)

VARIABLES
    call,         \* the Client call made: its operation and arguments
    future,       \* the std::future the call returned: its state and result
    task_pc,      \* where the std::async task of async_send stands
    req,          \* the Request the task captured
    sock,         \* the task's socket descriptor, -1 before connect_socket
    sockets,      \* every descriptor socket()/accept() returned: owner, close calls
    resolves,     \* getaddrinfo calls made
    request_str,  \* send_request: the serialized request
    sent,         \* send_request: bytes the transport accepted so far
    wire,         \* the bytes the transport accepted from the client, in order
    stream,       \* the bytes the peer sends before it closes
    rpos,         \* how many of them recv has delivered
    rr,           \* read_response: buffer, headers_done, content_length, is_chunked, resp
    eof           \* read_response: a recv call returned n <= 0

VARIABLES
    m_Routes,          \* Server::m_Routes
    m_IsRunning,       \* Server::m_IsRunning
    server_socket,     \* m_Config.server_socket
    is_multithreaded,  \* m_Config.is_multithreaded
    starts,            \* Server::start calls made
    start_result,      \* what the last Server::start returned
    run_pc,            \* where the thread in Server::run stands
    conns,             \* the handle_client invocations, in the order of accept
    process            \* "running", or "terminated" by std::terminate

\* Value objects a caller holds: a URL parse, a header store, a Request.
VARIABLES
    raw_url,   \* the string handed to URL::parse
    url,       \* what URL::parse returned for it, once called
    data,      \* Headers::data of a header store
    sets,      \* the Headers::set calls made on the store, in order
    request,   \* a Request object
    calls      \* the set_header / set_body calls made on it, in order

clientVars ==
    <<call, future, task_pc, req, sock, resolves, request_str, sent, wire,
      stream, rpos, rr, eof>>

serverVars ==
    <<m_Routes, m_IsRunning, server_socket, is_multithreaded, starts, start_result,
      run_pc, conns, process>>

valueVars == <<raw_url, url, data, sets, request, calls>>

vars == <<clientVars, serverVars, sockets, valueVars>>

(***************************************************************************)
(* Sockets                                                                 *)
(***************************************************************************)

\* socket() or accept() returning a new descriptor: the table's next index.
\* owner: "client", "listen" (the server's socket) or "conn" (an accepted one).
OpenSocket(tbl, owner) == Append(tbl, [owner |-> owner, closes |-> 0, listening |-> FALSE])

\* listen(fd, 10) succeeding.
ListenSocket(tbl, fd) == [tbl EXCEPT ![fd].listening = TRUE]

\* fd names a socket that is open.
IsOpen(tbl, fd) == fd \in 1..Len(tbl) /\ tbl[fd].closes = 0

\* close(fd) left out.
CloseSocketLeft(tbl, fd) == tbl

\* close(fd)
CloseSocket(tbl, fd) == [tbl EXCEPT ![fd].closes = @ + 1]

(***************************************************************************)
(* Inputs of the client                                                    *)
(***************************************************************************)

\* URL strings handed to Client::get and Client::post; the first three hold
\* no "://".
u_empty == <<>>
u_noscheme == <<"h","/","p">>
u_oneslash == <<"h","t","t","p",":","/","h">>
u_plain == <<"h","t","t","p",":","/","/","h","/","p">>
u_port_query == <<"h","t","t","p",":","/","/","h",":","8","1","/","p","?","q","=","1">>
u_https_nopath == <<"h","t","t","p","s",":","/","/","h">>

UrlInputs == {u_empty, u_noscheme, u_oneslash, u_plain, u_port_query, u_https_nopath}

b_hi == <<"h","i">>

BodyInputs == {<<>>, b_hi}

s_XA == <<"X","-","A">>
s_1 == <<"1">>

\* Requests handed to Client::async_send and Client::send.
RequestInputs ==
    {set_header(NewRequest("GET", URLparse(u_plain).value), s_XA, s_1),
     set_body(NewRequest("PUT", URLparse(u_port_query).value), b_hi)}

\* Byte streams a peer may send before it closes.
p_len3 == <<"H","T","T","P","/","1",".","1"," ","2","0","0"," ","O","K","\r","\n","C","o","n","t","e","n","t","-","L","e","n","g","t","h",":"," ","3","\r","\n","\r","\n","a","b","c","d","e">>
p_nolen == <<"H","T","T","P","/","1",".","1"," ","2","0","0"," ","O","K","\r","\n","\r","\n","h","e","l","l","o">>
p_len0 == <<"H","T","T","P","/","1",".","1"," ","4","0","4"," ","N","o","t"," ","F","o","u","n","d","\r","\n","C","o","n","t","e","n","t","-","L","e","n","g","t","h",":"," ","0","\r","\n","\r","\n","x","y">>
p_chunked == <<"H","T","T","P","/","1",".","1"," ","2","0","0"," ","O","K","\r","\n","T","r","a","n","s","f","e","r","-","E","n","c","o","d","i","n","g",":"," ","c","h","u","n","k","e","d","\r","\n","\r","\n","3","\r","\n","a","b","c","\r","\n","0","\r","\n","\r","\n">>
p_len_text == <<"H","T","T","P","/","1",".","1"," ","2","0","0"," ","O","K","\r","\n","C","o","n","t","e","n","t","-","L","e","n","g","t","h",":"," ","a","b","c","\r","\n","\r","\n","h","i">>
p_len_over == <<"H","T","T","P","/","1",".","1"," ","2","0","0"," ","O","K","\r","\n","C","o","n","t","e","n","t","-","L","e","n","g","t","h",":"," ","9","9","9","9","9","9","9","9","9","9","9","9","9","9","9","9","9","9","9","9","\r","\n","\r","\n","h","i">>
p_len_neg == <<"H","T","T","P","/","1",".","1"," ","2","0","0"," ","O","K","\r","\n","C","o","n","t","e","n","t","-","L","e","n","g","t","h",":"," ","-","1","\r","\n","\r","\n","h","i">>
p_badstatus == <<"B","A","D","\r","\n","\r","\n","x","y">>
p_body_term == <<"H","T","T","P","/","1",".","1"," ","2","0","0"," ","O","K","\r","\n","\r","\n","a","\r","\n","\r","\n","b">>
p_len_chunked == <<"H","T","T","P","/","1",".","1"," ","2","0","0"," ","O","K","\r","\n","C","o","n","t","e","n","t","-","L","e","n","g","t","h",":"," ","2","\r","\n","T","r","a","n","s","f","e","r","-","E","n","c","o","d","i","n","g",":"," ","c","h","u","n","k","e","d","\r","\n","\r","\n","a","b","c">>
p_nothing == <<>>

PeerStreams ==
    {p_len3, p_nolen, p_len0, p_chunked, p_len_text, p_len_over, p_len_neg,
     p_badstatus, p_body_term, p_len_chunked, p_nothing}

(***************************************************************************)
(* Client                                                                  *)
(***************************************************************************)

\* Request() = default
DefaultRequest == [method |-> "GET", url |-> EmptyURL, headers |-> NoHeaders, body |-> <<>>]

NoResult == [kind |-> "none"]

NoFuture == [state |-> "none", result |-> NoResult]

\* A future whose shared state is not ready yet.
PendingFuture == [state |-> "pending", result |-> NoResult]

\* A future holding a value, an error result or an exception.
ReadyFuture(result) == [state |-> "ready", result |-> result]

\* stl::make_error(msg + arg): an error result and its message.
ErrorOf(msg, arg) == [kind |-> "error", error |-> msg, arg |-> arg]

ErrorResult(msg) == ErrorOf(msg, <<>>)

\* Lines 175-177 and 186-188 without the return: the promise is set to the
\* error and async_send is called all the same.
ShortCircuitFallsThrough(url_result) ==
    [start |-> TRUE, req |-> DefaultRequest,
     future |-> ReadyFuture(ErrorResult(url_result.error))]

\* Lines 175-177 and 186-188: the promise set to the error, no task launched.
ShortCircuit(url_result) ==
    [start |-> FALSE, req |-> DefaultRequest,
     future |-> ReadyFuture(ErrorResult(url_result.error))]

\* Client::async_send, lines 139-141: std::async(std::launch::async, ...)
AsyncSendPlan(r) == [start |-> TRUE, req |-> r, future |-> PendingFuture]

\* Client::get, lines 174-179, with url_result = URL::parse(url_str): what the
\* call does. start: whether async_send is called (the task launched).
GetPlan(url_result) ==
    IF ~url_result.ok THEN ShortCircuit(url_result)
    ELSE AsyncSendPlan(NewRequest("GET", url_result.value))

\* Client::post, lines 185-192.
PostPlan(url_result, body) ==
    IF ~url_result.ok THEN ShortCircuit(url_result)
    ELSE AsyncSendPlan(set_body(NewRequest("POST", url_result.value), body))

\* The effect of a call on the client's state.
Launch(plan) ==
    /\ future' = plan.future
    /\ req' = plan.req
    /\ task_pc' = IF plan.start THEN "connect_socket" ELSE task_pc
    /\ UNCHANGED <<sock, sockets, resolves, request_str, sent, wire, stream, rpos, rr,
                   eof>>

\* Client::get(url_str)
Get(url_str) ==
    /\ call.op = "none"
    /\ UNCHANGED <<serverVars, valueVars>>
    /\ call' = [op |-> "get", url |-> url_str, body |-> <<>>]
    /\ Launch(GetPlan(URLparse(url_str)))

\* Client::post(url_str, body)
Post(url_str, body) ==
    /\ call.op = "none"
    /\ UNCHANGED <<serverVars, valueVars>>
    /\ call' = [op |-> "post", url |-> url_str, body |-> body]
    /\ Launch(PostPlan(URLparse(url_str), body))

\* Client::async_send(req); Client::send(req) is async_send followed by
\* future.get().
AsyncSend(r) ==
    /\ call.op = "none"
    /\ UNCHANGED <<serverVars, valueVars>>
    /\ call' = [op |-> "async_send", url |-> <<>>, body |-> r.body]
    /\ Launch(AsyncSendPlan(r))

\* The task returns a result: the future becomes ready with it.
TaskReturns(result) ==
    /\ task_pc' = "returned"
    /\ future' = ReadyFuture(result)

\* Client::connect_socket (lines 17-41) as the first step of the task, with
\* each outcome of getaddrinfo, socket and connect.
ConnectSocket ==
    /\ task_pc = "connect_socket"
    /\ UNCHANGED <<serverVars, valueVars>>
    /\ resolves' = resolves + 1
    /\ \/ \* getaddrinfo fails
          /\ TaskReturns(ErrorOf("Failed to resolve host: ", req.url.host))
          /\ UNCHANGED <<sock, sockets, request_str, sent>>
       \/ \* socket fails
          /\ TaskReturns(ErrorResult("Failed to create socket"))
          /\ UNCHANGED <<sock, sockets, request_str, sent>>
       \/ \* connect fails: the socket is closed
          /\ TaskReturns(ErrorResult("Failed to connect to host"))
          /\ sockets' = CloseSocket(OpenSocket(sockets, "client"), Len(sockets) + 1)
          /\ UNCHANGED <<sock, request_str, sent>>
       \/ \* connected: send_request starts
          /\ sockets' = OpenSocket(sockets, "client")
          /\ sock' = Len(sockets) + 1
          /\ request_str' = SerializeRequest(req)
          /\ sent' = 0
          /\ task_pc' = "send_request"
          /\ UNCHANGED future
    /\ UNCHANGED <<call, req, wire, stream, rpos, rr, eof>>

\* What ::send may return when asked to write len bytes.
SendReturns(len) == (-1)..len

\* ::send(sock, request_str.c_str(), ...): the offset forgotten.
AcceptedFromStart(str, from, n) == substr(str, 0, n)

\* ::send(sock, request_str.c_str() + sent, request_str.size() - sent, 0)
\* returning n > 0: the bytes the transport took.
Accepted(str, from, n) == substr(str, from, n)

\* sent += n
Advance(from, n) == from + n

\* One ::send call of the loop of Client::send_request (lines 57-65); on
\* n <= 0 the task closes the socket and returns the error (lines 148-154).
SendCall ==
    /\ task_pc = "send_request"
    /\ UNCHANGED <<serverVars, valueVars>>
    /\ sent < Len(request_str)
    /\ \E n \in SendReturns(Len(request_str) - sent) :
          IF n <= 0
          THEN /\ sockets' = CloseSocket(sockets, sock)
               /\ TaskReturns(ErrorResult("Failed to send request"))
               /\ UNCHANGED <<sent, wire, stream>>
          ELSE /\ wire' = wire \o Accepted(request_str, sent, n)
               /\ sent' = Advance(sent, n)
               /\ IF sent' < Len(request_str)
                  THEN UNCHANGED <<task_pc, stream>>
                  ELSE /\ task_pc' = "read_response"
                       /\ stream' \in PeerStreams
               /\ UNCHANGED <<sockets, future>>
    /\ UNCHANGED <<call, req, sock, resolves, request_str, rpos, rr, eof>>

\* read_response has returned: the task closes the socket and returns the
\* result (client_impl.cpp lines 156-163).
CloseAndReturn(result) ==
    /\ sockets' = CloseSocket(sockets, sock)
    /\ TaskReturns(result)

\* An exception leaves read_response and the task's lambda: std::async stores
\* it in the shared state and future.get() rethrows it.
TaskThrows(what) ==
    /\ task_pc' = "threw"
    /\ future' = ReadyFuture([kind |-> "exception", what |-> what])
    /\ UNCHANGED sockets

\* The loop of read_response after one pass (it) on received bytes.
Received(it) ==
    /\ rr' = it.rr
    /\ CASE it.ctl = "continue" -> UNCHANGED <<task_pc, future, sockets>>
         [] it.ctl = "break" -> CloseAndReturn(ReadResult(it.rr))
         [] it.ctl = "throw" -> TaskThrows(it.thrown)

\* One recv call of the loop of Client::read_response and what follows it.
RecvCall ==
    /\ task_pc = "read_response"
    /\ UNCHANGED <<serverVars, valueVars>>
    /\ \/ \* n <= 0: the peer closed, or recv failed
          /\ eof' = TRUE
          /\ CloseAndReturn(ReadResult(rr))
          /\ UNCHANGED <<rpos, rr>>
       \/ \E n \in 1..Min2(ChunkSize, Len(stream) - rpos) :
             /\ rpos' = rpos + n
             /\ UNCHANGED eof
             /\ Received(ReadIteration(rr, substr(stream, rpos, n)))
    /\ UNCHANGED <<call, req, sock, resolves, request_str, sent, wire, stream>>

(***************************************************************************)
(* Server: parse_request, build_response, routing                          *)
(***************************************************************************)

\* ServerRequest(method, path): the parsed request the server routes on.
NewServerRequest(method, path) ==
    [method |-> method, path |-> path, query |-> <<>>, headers |-> NoHeaders, body |-> <<>>]

RECURSIVE JoinLines(_)
\* server.cpp lines 52-54: body_content += body_line + "\n" for every line left.
JoinLines(lines) ==
    IF lines = <<>> THEN <<>> ELSE lines[1] \o s_LF \o JoinLines(Tail(lines))

\* Lines 55-57: the last '\n' dropped.
DropLastLF(body_content) ==
    IF body_content # <<>> /\ body_content[Len(body_content)] = "\n"
    THEN SubSeq(body_content, 1, Len(body_content) - 1)
    ELSE body_content

\* Lines 38-58: the headers and the body from the lines after the first.
RequestOfLines(r, hs) ==
    [r EXCEPT !.headers = hs.headers, !.body = DropLastLF(JoinLines(hs.rest))]

\* Lines 29-37: path and query from the request target.
RequestOfTarget(method, path_str, query_pos) ==
    IF query_pos # npos
    THEN [NewServerRequest(method, substr(path_str, 0, query_pos))
            EXCEPT !.query = substr(path_str, query_pos + 1, npos)]
    ELSE NewServerRequest(method, path_str)

\* Lines 27-28 with first_line >> method_str done (m) and >> path_str done (p).
RequestOfWords(m, p) ==
    RequestOfTarget(string_to_method(m.word), p.word, find(p.word, s_qmark, 0))

FirstLineAfterMethod(m) == RequestOfWords(m, ExtractWord(m.st))

\* Lines 25-37: the first line.
ParseFirstLine(line) == FirstLineAfterMethod(ExtractWord(IStream(line)))

RequestOfFirst(r, lines) == RequestOfLines(r, ParseHeaderLines(r.headers, lines))

ParseLines(lines) ==
    IF lines = <<>> THEN [ok |-> FALSE, error |-> "Empty request"]
    ELSE [ok |-> TRUE, value |-> RequestOfFirst(ParseFirstLine(lines[1]), Tail(lines))]

\* parse_request (server.cpp lines 18-60): a stl::result<ServerRequest>.
parse_request(raw_request) == ParseLines(SplitLines(raw_request))

s_HTTP11_SP == <<"H","T","T","P","/","1",".","1"," ">>
s_OK == <<"O","K">>
s_Created == <<"C","r","e","a","t","e","d">>
s_NoContent == <<"N","o"," ","C","o","n","t","e","n","t">>
s_BadRequest == <<"B","a","d"," ","R","e","q","u","e","s","t">>
s_NotFound == <<"N","o","t"," ","F","o","u","n","d">>
s_InternalServerError == <<"I","n","t","e","r","n","a","l"," ","S","e","r","v","e","r"," ","E","r","r","o","r">>
s_Unknown == <<"U","n","k","n","o","w","n">>
s_Error == <<"E","r","r","o","r",":"," ">>

\* build_response, lines 65-87: the reason phrase.
StatusPhrase(code) ==
    CASE code = 200 -> s_OK
      [] code = 201 -> s_Created
      [] code = 204 -> s_NoContent
      [] code = 400 -> s_BadRequest
      [] code = 404 -> s_NotFound
      [] code = 500 -> s_InternalServerError
      [] OTHER -> s_Unknown

\* build_response (server.cpp lines 62-97)
build_response(resp) ==
    s_HTTP11_SP \o to_string(resp.status_code) \o s_SP \o StatusPhrase(resp.status_code)
    \o s_CRLF
    \o HeaderLines(resp.headers, SortedKeys(DOMAIN resp.headers))
    \o s_CRLF
    \o resp.body

\* Line 121 without the comparison of the methods.
RouteMatchesPath(route, r) == route.path = r.path

\* Line 121: route.method == req.method && route.path == req.path
RouteMatches(route, r) == route.method = r.method /\ route.path = r.path

RECURSIVE ScanRoutes(_, _, _)
\* Lines 120-129: the index of the route the loop stops at, from index i on;
\* 0 when it runs to the end.
ScanRoutes(routes, i, r) ==
    IF i > Len(routes) THEN 0
    ELSE IF RouteMatches(routes[i], r) THEN i
    ELSE ScanRoutes(routes, i + 1, r)

s_boom == <<"b","o","o","m">>

\* Route handlers: what a call of each does. "echo" returns
\* Response(200, req.body), "ok" returns Response(200, "ok"), "throw_std" throws std::runtime_error("boom"),
\* "throw_other" throws a value whose type does not derive from
\* std::exception (throw 42).
Handlers == {"echo", "ok", "throw_std", "throw_other"}

s_ok == <<"o","k">>

Invoke(h, r) ==
    CASE h = "echo" -> [kind |-> "return", resp |-> NewResponse(200, r.body)]
      [] h = "ok" -> [kind |-> "return", resp |-> NewResponse(200, s_ok)]
      [] h = "throw_std" -> [kind |-> "throw_std", what |-> s_boom]
      [] h = "throw_other" -> [kind |-> "throw_other"]

\* Lines 122-126: try { resp = route.handler(req); } catch (const
\* std::exception &e) { resp = Response(500, "Error: " + e.what()); }
\* escaped: the exception is not caught and leaves handle_client.
TryHandler(out) ==
    CASE out.kind = "return" -> [escaped |-> FALSE, resp |-> out.resp]
      [] out.kind = "throw_std" ->
            [escaped |-> FALSE, resp |-> NewResponse(500, s_Error \o out.what)]
      [] out.kind = "throw_other" -> [escaped |-> TRUE, resp |-> DefaultResponse]

HandlerCalled(i, t) == [invoked |-> <<i>>, escaped |-> t.escaped, resp |-> t.resp]

\* Lines 117-130 with the loop stopped at route i (0: no route matched).
RoutedTo(routes, r, i) ==
    IF i = 0
    THEN [invoked |-> <<>>, escaped |-> FALSE, resp |-> NewResponse(404, s_NotFound)]
    ELSE HandlerCalled(i, TryHandler(Invoke(routes[i].handler, r)))

\* Lines 116-130: the response to the request data read, the routes whose
\* handler was called, and whether an exception leaves handle_client.
Dispatch(routes, req_result) ==
    IF req_result.ok
    THEN RoutedTo(routes, req_result.value, ScanRoutes(routes, 1, req_result.value))
    ELSE [invoked |-> <<>>, escaped |-> FALSE, resp |-> NewResponse(404, s_NotFound)]

(***************************************************************************)
(* Inputs of the server                                                    *)
(***************************************************************************)

MaxRoutes == 2

MaxConns == 1

MaxStarts == 1

s_path_a == <<"/","a">>

\* What Server::route is called with: the first two share (GET, /a).
RouteInputs ==
    {[path |-> s_path_a, method |-> "GET", handler |-> "echo"],
     [path |-> s_path_a, method |-> "GET", handler |-> "throw_std"],
     [path |-> s_path_a, method |-> "POST", handler |-> "throw_other"]}

\* The byte 0 in received data.
NUL == "NUL"

\* request_data = buffer (line 115): the bytes before the first 0 byte.
c_str(buffer) == substr(buffer, 0, find(buffer, <<NUL>>, 0))

\* What one recv on a connection may read.
q_get_a == <<"G","E","T"," ","/","a"," ","H","T","T","P","/","1",".","1","\r","\n","H","o","s","t",":"," ","h","\r","\n","\r","\n","h","i">>
q_get_a_query == <<"G","E","T"," ","/","a","?","x","=","1"," ","H","T","T","P","/","1",".","1","\r","\n","\r","\n">>
q_post_a == <<"P","O","S","T"," ","/","a"," ","H","T","T","P","/","1",".","1","\r","\n","\r","\n">>
q_get_b == <<"G","E","T"," ","/","b"," ","H","T","T","P","/","1",".","1","\r","\n","\r","\n">>
q_get_a_slash == <<"G","E","T"," ","/","a","/"," ","H","T","T","P","/","1",".","1","\r","\n","\r","\n">>
q_foo_a == <<"F","O","O"," ","/","a"," ","H","T","T","P","/","1",".","1","\r","\n","\r","\n">>
q_nul == <<NUL>> \o q_get_a

RequestData == {q_get_a, q_get_a_query, q_post_a, q_get_b, q_get_a_slash, q_foo_a, q_nul}

(***************************************************************************)
(* Server                                                                  *)
(***************************************************************************)

\* Server::route (http.h lines 142-149), called before start().
Route(r) ==
    /\ process = "running"
    /\ starts = 0 /\ run_pc = "none"
    /\ Len(m_Routes) < MaxRoutes
    /\ m_Routes' = Append(m_Routes, r)
    /\ UNCHANGED <<m_IsRunning, server_socket, is_multithreaded, starts, start_result,
                   run_pc, conns, process, sockets>>
    /\ UNCHANGED <<clientVars, valueVars>>

\* Server::start (server.cpp lines 141-192) with each outcome of socket, bind
\* and listen. It is called by the thread that calls run(), so not while that
\* thread is inside run().
StartUpTo(max) ==
    /\ process = "running"
    /\ run_pc \in {"none", "returned", "threw"}
    /\ starts < max
    /\ starts' = starts + 1
    /\ \/ \* socket fails
          /\ server_socket' = -1
          /\ start_result' = [ok |-> FALSE, error |-> "Failed to create socket"]
          /\ UNCHANGED <<sockets, m_IsRunning>>
       \/ \* bind fails
          /\ server_socket' = Len(sockets) + 1
          /\ sockets' = CloseSocket(OpenSocket(sockets, "listen"), Len(sockets) + 1)
          /\ start_result' = [ok |-> FALSE, error |-> "Failed to bind to port"]
          /\ UNCHANGED m_IsRunning
       \/ \* listen fails
          /\ server_socket' = Len(sockets) + 1
          /\ sockets' = CloseSocket(OpenSocket(sockets, "listen"), Len(sockets) + 1)
          /\ start_result' = [ok |-> FALSE, error |-> "Failed to listen"]
          /\ UNCHANGED m_IsRunning
       \/ \* all three succeed
          /\ server_socket' = Len(sockets) + 1
          /\ sockets' = ListenSocket(OpenSocket(sockets, "listen"), Len(sockets) + 1)
          /\ m_IsRunning' = TRUE
          /\ start_result' = [ok |-> TRUE]
    /\ UNCHANGED <<m_Routes, is_multithreaded, run_pc, conns, process>>
    /\ UNCHANGED <<clientVars, valueVars>>

Start == StartUpTo(MaxStarts)

\* Server::stop waiting for the handle_client invocations to end first.
StopJoining ==
    /\ \A i \in 1..Len(conns) : conns[i].pc \in {"done", "threw"}
    /\ process = "running"
    /\ m_IsRunning' = FALSE
    /\ IF server_socket >= 0
       THEN /\ sockets' = CloseSocket(sockets, server_socket)
            /\ server_socket' = -1
       ELSE UNCHANGED <<sockets, server_socket>>
    /\ UNCHANGED <<m_Routes, is_multithreaded, starts, start_result, run_pc, conns, process>>
    /\ UNCHANGED <<clientVars, valueVars>>

\* Server::stop (server.cpp lines 229-242); Server::~Server calls it.
Stop ==
    /\ process = "running"
    /\ m_IsRunning' = FALSE
    /\ IF server_socket >= 0
       THEN /\ sockets' = CloseSocket(sockets, server_socket)
            /\ server_socket' = -1
       ELSE UNCHANGED <<sockets, server_socket>>
    /\ UNCHANGED <<m_Routes, is_multithreaded, starts, start_result, run_pc, conns, process>>
    /\ UNCHANGED <<clientVars, valueVars>>

\* Server::run is called.
Run ==
    /\ process = "running"
    /\ run_pc = "none"
    /\ run_pc' = "loop"
    /\ UNCHANGED <<m_Routes, m_IsRunning, server_socket, is_multithreaded, starts,
                   start_result, conns, process, sockets>>
    /\ UNCHANGED <<clientVars, valueVars>>

\* Line 195: while (m_IsRunning.load())
LoopTest ==
    /\ process = "running"
    /\ run_pc = "loop"
    /\ run_pc' = IF m_IsRunning THEN "accept" ELSE "returned"
    /\ UNCHANGED <<m_Routes, m_IsRunning, server_socket, is_multithreaded, starts,
                   start_result, conns, process, sockets>>
    /\ UNCHANGED <<clientVars, valueVars>>

\* A handle_client invocation on an accepted socket, before its recv.
NewConn(fd, inline) ==
    [fd |-> fd, pc |-> "recv", inline |-> inline, n |-> 0, request_data |-> <<>>,
     invoked |-> <<>>, resp |-> DefaultResponse, response_str |-> <<>>, wrote |-> 0]

\* Lines 198-225: accept returns, with each outcome; max bounds the
\* connections accepted, mt is what line 219 reads.
AcceptOutcomes(max, mt) ==
    /\ process = "running"
    /\ run_pc = "accept"
    /\ \/ \* a connection: handle_client on a detached thread, or inline
          /\ IsOpen(sockets, server_socket) /\ sockets[server_socket].listening
          /\ Len(conns) < max
          /\ sockets' = OpenSocket(sockets, "conn")
          /\ conns' = Append(conns, NewConn(Len(sockets) + 1, ~mt))
          /\ run_pc' = IF mt THEN "loop" ELSE "inline"
       \/ \* EINTR
          /\ run_pc' = "loop"
          /\ UNCHANGED <<conns, sockets>>
       \/ \* the descriptor is invalid (EBADF, EINVAL, ENOTSOCK), or stop() ran
          /\ ~m_IsRunning \/ ~IsOpen(sockets, server_socket)
          /\ run_pc' = "returned"
          /\ UNCHANGED <<conns, sockets>>
       \/ \* another error while running: sleep and retry
          /\ m_IsRunning
          /\ run_pc' = "loop"
          /\ UNCHANGED <<conns, sockets>>
    /\ UNCHANGED <<m_Routes, m_IsRunning, server_socket, is_multithreaded, starts,
                   start_result, process>>
    /\ UNCHANGED <<clientVars, valueVars>>

\* The accept loop detaching a thread for every connection, whatever
\* is_multithreaded says.
AcceptReturnDetached(max) == AcceptOutcomes(max, TRUE)

AcceptReturnUpTo(max) == AcceptOutcomes(max, is_multithreaded)

AcceptReturn == AcceptReturnUpTo(MaxConns)

\* An exception leaves handle_client: out of run() when it ran inline, out of
\* the thread function (std::terminate) when it ran on its own thread.
Escapes(c) ==
    /\ IF c.inline
       THEN run_pc' = "threw" /\ UNCHANGED process
       ELSE process' = "terminated" /\ UNCHANGED run_pc

\* handle_client after recv returned n > 0 bytes (lines 113-131), d being what
\* routing and the handler gave.
Handled(i, buffer, d) ==
    IF d.escaped
    THEN /\ conns' = [conns EXCEPT ![i].pc = "threw", ![i].n = Len(buffer),
                                   ![i].request_data = c_str(buffer),
                                   ![i].invoked = d.invoked]
         /\ Escapes(conns[i])
    ELSE /\ conns' = [conns EXCEPT ![i].pc = "send", ![i].n = Len(buffer),
                                   ![i].request_data = c_str(buffer),
                                   ![i].invoked = d.invoked,
                                   ![i].resp = d.resp,
                                   ![i].response_str = build_response(d.resp)]
         /\ UNCHANGED <<run_pc, process>>

\* handle_client, lines 134-139: close(client_socket) and return; the locals
\* are gone, what the one send wrote (w) is kept.
Closed(i, w) ==
    /\ sockets' = CloseSocket(sockets, conns[i].fd)
    /\ conns' = [conns EXCEPT ![i] = [NewConn(conns[i].fd, conns[i].inline)
                                        EXCEPT !.pc = "done", !.wrote = w]]
    /\ run_pc' = IF conns[i].inline THEN "loop" ELSE run_pc
    /\ UNCHANGED process

\* handle_client, lines 106-131: the one recv; on n <= 0 the close (lines
\* 134-139); on n > 0 the parse, the routing, the handler and build_response.
HandleRecv(i) ==
    /\ process = "running"
    /\ conns[i].pc = "recv"
    /\ \/ \* n <= 0
          Closed(i, 0)
       \/ \E buffer \in RequestData :
             /\ Handled(i, buffer, Dispatch(m_Routes, parse_request(c_str(buffer))))
             /\ UNCHANGED sockets
    /\ UNCHANGED <<m_Routes, m_IsRunning, server_socket, is_multithreaded, starts,
                   start_result>>
    /\ UNCHANGED <<clientVars, valueVars>>

\* What the one send of handle_client wrote, as the model keeps it: the whole
\* response (2), a part of it (1), nothing (0).
Wrote(n, len) == IF n >= len THEN 2 ELSE IF n > 0 THEN 1 ELSE 0

\* handle_client, lines 132-139: one send, its result not looked at, then
\* close(client_socket) and return.
HandleSend(i) ==
    /\ process = "running"
    /\ conns[i].pc = "send"
    /\ \E w \in {Wrote(n, Len(conns[i].response_str)) :
                   n \in SendReturns(Len(conns[i].response_str))} :
          Closed(i, w)
    /\ UNCHANGED <<m_Routes, m_IsRunning, server_socket, is_multithreaded, starts,
                   start_result>>
    /\ UNCHANGED <<clientVars, valueVars>>

ServerInit ==
    /\ m_Routes = <<>>
    /\ m_IsRunning = FALSE
    /\ server_socket = -1
    /\ is_multithreaded \in BOOLEAN
    /\ starts = 0
    /\ start_result = [ok |-> TRUE]
    /\ run_pc = "none"
    /\ conns = <<>>
    /\ process = "running"

ServerNext ==
    \/ \E r \in RouteInputs : Route(r)
    \/ Start
    \/ Stop
    \/ Run
    \/ LoopTest
    \/ AcceptReturn
    \/ \E i \in 1..Len(conns) : HandleRecv(i)
    \/ \E i \in 1..Len(conns) : HandleSend(i)

(***************************************************************************)
(* Value objects: URL::parse, the header store, Request                    *)
(***************************************************************************)

MaxUrlLen == 4

UrlAlphabet == {":", "/", "?", "h"}

\* Every string over the alphabet up to the bound, the empty one included.
UrlTails == UNION {[1..n -> UrlAlphabet] : n \in 0..MaxUrlLen}

s_http == <<"h","t","t","p">>

\* The inputs of URL::parse: those strings, bare and after "http://" and
\* "https://".
RawUrls ==
    UrlTails \cup {scheme \o s_scheme_sep \o tail : scheme \in {s_http, s_https},
                                                   tail \in UrlTails}

NotParsed == [kind |-> "none"]

\* auto result = URL::parse(raw_url);
UrlParseCall ==
    /\ url = NotParsed
    /\ url' = [kind |-> "returned", result |-> URLparse(raw_url)]
    /\ UNCHANGED <<clientVars, serverVars, sockets, raw_url, data, sets, request, calls>>

MaxSets == 3

k_ab == <<"a","b">>
k_Ab == <<"A","b">>
k_AB == <<"A","B">>
k_aB == <<"a","B">>
k_c == <<"c">>
k_C == <<"C">>
k_d == <<"d">>
v_1 == <<"1">>
v_2 == <<"2">>

HeaderKeys == {k_ab, k_Ab, k_AB, k_c, k_C}

HeaderValues == {v_1, v_2}

\* headers.set(key, value);
HeadersSetCall(key, value) ==
    /\ Len(sets) < MaxSets
    /\ data' = HeadersSet(data, key, value)
    /\ sets' = Append(sets, [key |-> key, value |-> value])
    /\ UNCHANGED <<clientVars, serverVars, sockets, raw_url, url, request, calls>>

MaxCalls == 3

s_x == <<"x">>
s_5 == <<"5">>
b_hello == <<"h","e","l","l","o">>
u_server == <<"h","t","t","p",":","/","/","h","/","a">>

RequestHeaderKeys == {s_ContentLength, s_content_length, s_Accept}

RequestHeaderValues == {s_5, s_x}

RequestBodies == {<<>>, b_hi, b_hello}

\* request.set_header(key, value);
SetHeaderCall(key, value) ==
    /\ Len(calls) < MaxCalls
    /\ request' = set_header(request, key, value)
    /\ calls' = Append(calls, [op |-> "set_header", key |-> key, value |-> value])
    /\ UNCHANGED <<clientVars, serverVars, sockets, raw_url, url, data, sets>>

\* request.set_body(body);
SetBodyCall(body) ==
    /\ Len(calls) < MaxCalls
    /\ request' = set_body(request, body)
    /\ calls' = Append(calls, [op |-> "set_body", key |-> <<>>, value |-> body])
    /\ UNCHANGED <<clientVars, serverVars, sockets, raw_url, url, data, sets>>

\* No value object in use.
ValueInit ==
    /\ raw_url = <<>>
    /\ url = NotParsed
    /\ data = NoHeaders
    /\ sets = <<>>
    /\ request = DefaultRequest
    /\ calls = <<>>

(***************************************************************************)
(* Client and server over one connection                                   *)
(***************************************************************************)

\* The offsets at which the transport may end a delivery of the bytes s:
\* inside the first line, after the header block, before the last byte, at
\* the end.
FirstCut == 5

SplitPoints(s) ==
    {k \in 1..Len(s) : \/ k = FirstCut
                       \/ k = find(s, s_CRLFCRLF, 0) + 4
                       \/ k = Len(s) - 1
                       \/ k = Len(s)}

\* sizeof(buffer) - 1 at server.cpp line 111.
RecvMax == 8191

b_line == <<"a","\n">>

EchoBodies == {b_hi, b_line}

\* The routes of tests/integration_tests.cpp, in the order of registration.
EchoRoutes ==
    <<[path |-> s_path_a, method |-> "POST", handler |-> "echo"],
      [path |-> s_path_a, method |-> "GET", handler |-> "ok"]>>

RouteNext ==
    /\ Len(m_Routes) < Len(EchoRoutes)
    /\ Route(EchoRoutes[Len(m_Routes) + 1])

\* The server's socket accepts connections.
Listening == IsOpen(sockets, server_socket) /\ sockets[server_socket].listening

\* connect_socket against the server: connect succeeds only on a listening
\* socket.
ConnectToServer ==
    /\ ConnectSocket
    /\ task_pc' = "send_request" => Listening

\* accept on the server: a connection is returned only if the client made one.
AcceptFromClient ==
    /\ AcceptReturn
    /\ Len(conns') > Len(conns) => (task_pc \in {"send_request", "read_response"} /\ conns = <<>>)

\* One ::send call of Client::send_request on the connection: the transport
\* takes the bytes up to a split point.
SendCallToServer ==
    /\ task_pc = "send_request"
    /\ sent < Len(request_str)
    /\ \E n \in 1..(Len(request_str) - sent) :
          /\ sent + n \in SplitPoints(request_str)
          /\ wire' = wire \o Accepted(request_str, sent, n)
          /\ sent' = Advance(sent, n)
          /\ task_pc' = IF sent' < Len(request_str) THEN task_pc ELSE "read_response"
    /\ UNCHANGED <<call, future, req, sock, resolves, request_str, stream, rpos, rr, eof>>
    /\ UNCHANGED <<serverVars, valueVars, sockets>>

\* The one recv of handle_client on the connection: it returns the bytes that
\* have arrived, a prefix of what the client's transport took.
HandleRecvFromClient(i) ==
    /\ process = "running"
    /\ conns[i].pc = "recv"
    /\ \E k \in SplitPoints(request_str) :
          /\ k <= Min2(Len(wire), RecvMax)
          /\ Handled(i, substr(wire, 0, k),
                     Dispatch(m_Routes, parse_request(c_str(substr(wire, 0, k)))))
    /\ UNCHANGED <<m_Routes, m_IsRunning, server_socket, is_multithreaded, starts,
                   start_result, sockets>>
    /\ UNCHANGED <<clientVars, valueVars>>

\* The one send of handle_client on the connection, then the close: the
\* client's side receives what the send wrote, then the end of the stream.
HandleSendToClient(i) ==
    /\ process = "running"
    /\ conns[i].pc = "send"
    /\ \E n \in SplitPoints(conns[i].response_str) :
          /\ Closed(i, Wrote(n, Len(conns[i].response_str)))
          /\ stream' = substr(conns[i].response_str, 0, n)
    /\ UNCHANGED <<m_Routes, m_IsRunning, server_socket, is_multithreaded, starts,
                   start_result>>
    /\ UNCHANGED <<call, future, task_pc, req, sock, resolves, request_str, sent, wire,
                   rpos, rr, eof>>
    /\ UNCHANGED valueVars

\* The server's side of the connection is closed.
ServerClosed == \E i \in 1..Len(conns) : conns[i].pc = "done"

\* One recv call of Client::read_response on the connection: bytes the server
\* sent, up to a split point, or the end of the stream once the server has
\* closed and everything was delivered.
RecvCallFromServer ==
    /\ RecvCall
    /\ IF eof' THEN ServerClosed /\ rpos = Len(stream)
       ELSE rpos' \in SplitPoints(stream)

EndToEndNext ==
    \/ RouteNext
    \/ Start
    \/ Run
    \/ LoopTest
    \/ AcceptFromClient
    \/ \E i \in 1..Len(conns) : HandleRecvFromClient(i)
    \/ \E i \in 1..Len(conns) : HandleSendToClient(i)
    \/ \E body \in EchoBodies : Post(u_server, body)
    \/ Get(u_server)
    \/ ConnectToServer
    \/ SendCallToServer
    \/ RecvCallFromServer

(***************************************************************************)
(* Specifications                                                          *)
(***************************************************************************)

ClientInit ==
    /\ call = [op |-> "none", url |-> <<>>, body |-> <<>>]
    /\ future = NoFuture
    /\ task_pc = "none"
    /\ req = DefaultRequest
    /\ sock = -1
    /\ resolves = 0
    /\ request_str = <<>>
    /\ sent = 0
    /\ wire = <<>>
    /\ stream = <<>>
    /\ rpos = 0
    /\ rr = ReadStart
    /\ eof = FALSE

ClientNext ==
    \/ \E u \in UrlInputs : Get(u)
    \/ \E u \in UrlInputs, b \in BodyInputs : Post(u, b)
    \/ \E r \in RequestInputs : AsyncSend(r)
    \/ ConnectSocket
    \/ SendCall
    \/ RecvCall

\* Neither a client call nor a server call made yet.
Idle == ClientInit /\ ServerInit /\ sockets = <<>>

Init == Idle /\ ValueInit

\* The client against an arbitrary peer.
SpecClient == Init /\ [][ClientNext]_vars

\* The client with its task's thread scheduled: a ::send call that is made
\* returns.
SpecClientLive == SpecClient /\ WF_vars(SendCall)

\* The server against arbitrary connections.
SpecServer == Init /\ [][ServerNext]_vars

URLInit ==
    /\ Idle /\ ~is_multithreaded
    /\ raw_url \in RawUrls
    /\ url = NotParsed
    /\ data = NoHeaders /\ sets = <<>>
    /\ request = DefaultRequest /\ calls = <<>>

URLNext == UrlParseCall

\* URL::parse on every input string up to the bound.
SpecURL == URLInit /\ [][URLNext]_vars

HeadersInit == Idle /\ ~is_multithreaded /\ ValueInit

HeadersNext == \E key \in HeaderKeys, value \in HeaderValues : HeadersSetCall(key, value)

\* A header store, empty at construction, under any sequence of set calls.
SpecHeaders == HeadersInit /\ [][HeadersNext]_vars

RequestInit ==
    /\ Idle /\ ~is_multithreaded
    /\ raw_url = <<>> /\ url = NotParsed
    /\ data = NoHeaders /\ sets = <<>>
    /\ request \in {DefaultRequest, NewRequest("POST", URLparse(u_server).value)}
    /\ calls = <<>>

RequestNext ==
    \/ \E key \in RequestHeaderKeys, value \in RequestHeaderValues : SetHeaderCall(key, value)
    \/ \E body \in RequestBodies : SetBodyCall(body)

\* A Request, as constructed, under any sequence of set_header and set_body
\* calls.
SpecRequest == RequestInit /\ [][RequestNext]_vars

MaxSerialConns == 2

ServerSerialInit == Init /\ ~is_multithreaded

ServerSerialNext ==
    \/ \E r \in RouteInputs : Route(r)
    \/ Start
    \/ Stop
    \/ Run
    \/ LoopTest
    \/ AcceptReturnUpTo(MaxSerialConns)
    \/ \E i \in 1..Len(conns) : HandleRecv(i)
    \/ \E i \in 1..Len(conns) : HandleSend(i)

\* The server with is_multithreaded false, against several connections.
SpecServerSerial == ServerSerialInit /\ [][ServerSerialNext]_vars

\* The server with its threads scheduled: the thread in run() reaches its loop
\* test, an accept that stop() interrupted (shutdown and close of the listening
\* socket) returns, and a handle_client invocation whose recv or send can
\* return goes on.
SpecServerLive ==
    /\ SpecServer
    /\ WF_vars(LoopTest)
    /\ WF_vars(~m_IsRunning /\ AcceptReturn)
    /\ \A i \in 1..MaxConns :
          /\ WF_vars(i <= Len(conns) /\ HandleRecv(i))
          /\ WF_vars(i <= Len(conns) /\ HandleSend(i))

\* One client call against the server, over a transport that delivers the
\* bytes of each direction in order and in pieces.
SpecEndToEnd == Init /\ [][EndToEndNext]_vars

MaxRestarts == 3

LifecycleNext ==
    \/ StartUpTo(MaxRestarts)
    \/ Stop

\* One Server under any sequence of start() and stop() calls (the destructor
\* is a stop() call), with every outcome of socket, bind and listen.
SpecLifecycle == Init /\ [][LifecycleNext]_vars

(***************************************************************************)
(* Properties                                                              *)
(***************************************************************************)

\* The bytes recv has delivered to read_response.
Delivered == substr(stream, 0, rpos)

\* Where the header terminator CRLF CRLF first stands in them, or npos.
TerminatorAt == find(Delivered, s_CRLFCRLF, 0)

\* The bytes delivered after the header terminator.
AfterTerminator ==
    IF TerminatorAt = npos THEN <<>> ELSE substr(Delivered, TerminatorAt + 4, npos)

\* The task of async_send has completed.
TaskDone == task_pc \in {"returned", "threw"}

\* send_request returned success and read_response was entered.
ReadEntered == request_str # <<>> /\ sent = Len(request_str)

\* read_response has returned a result.
ReadReturned == ReadEntered /\ task_pc = "returned"

\* The Content-Length the parsed response declares (absent: 0).
DeclaredLength == ParseContentLength(HeadersGet(rr.resp.headers, s_content_length))

\* The parsed response's Transfer-Encoding holds "chunked".
DeclaredChunked == find(HeadersGet(rr.resp.headers, s_transfer_encoding), s_chunked, 0) # npos

ClientSockets == {fd \in 1..Len(sockets) : sockets[fd].owner = "client"}

ParseError == ErrorResult("Failed to parse response headers")

\* C1 as stated: no socket of the client is ever closed twice, and once the
\* task of async_send has completed, on any path, every socket it opened has
\* been closed exactly once.
C1_SocketClosedOnce ==
    /\ \A fd \in ClientSockets : sockets[fd].closes <= 1
    /\ TaskDone => \A fd \in ClientSockets : sockets[fd].closes = 1

\* C2 as stated: whatever the peer delivers, a completed call's future holds
\* a Response or a textual error; it never holds an exception that
\* future.get() throws to the caller.
C2_ErrorsAreValues ==
    /\ future.state = "ready" => future.result.kind \in {"value", "error"}
    /\ TaskDone => future.state = "ready" /\ future.result.kind \in {"value", "error"}

\* The Content-Length value of the parsed response is a plain decimal number.
LengthInDigits ==
    /\ HeadersGet(rr.resp.headers, s_content_length) # <<>>
    /\ \A i \in 1..Len(HeadersGet(rr.resp.headers, s_content_length)) :
          isdigit(HeadersGet(rr.resp.headers, s_content_length)[i])

\* C3 as stated: for a response that is not chunked and declares
\* Content-Length N > 0, read_response returns, without having seen the peer
\* close, a body that is exactly the first N bytes after the header terminator.
C3_BodyIsExactlyN ==
    (/\ ReadReturned /\ rr.headers_done
     /\ ~DeclaredChunked
     /\ LengthInDigits
     /\ DeclaredLength.kind = "ok" /\ DeclaredLength.val > 0)
    => /\ future.result.kind = "value"
       /\ ~eof
       /\ Len(future.result.value.body) = DeclaredLength.val
       /\ future.result.value.body = substr(AfterTerminator, 0, DeclaredLength.val)

\* C3 as amended: for a response that is not chunked and declares
\* Content-Length N > 0, read_response goes on reading only while fewer than N
\* bytes have arrived after the header terminator; it returns without waiting
\* for the peer to close exactly when N or more have arrived, and the body is
\* then the first N of them; when the peer closes (or recv fails) before that,
\* the body is all the bytes that arrived after the terminator, fewer than N.
C3_ContentLengthFraming ==
    (/\ ReadEntered /\ rr.headers_done
     /\ ~DeclaredChunked
     /\ DeclaredLength.kind = "ok" /\ DeclaredLength.val > 0)
    => /\ task_pc \in {"read_response", "returned"}
       /\ task_pc = "read_response" => Len(AfterTerminator) < DeclaredLength.val
       /\ task_pc = "returned" =>
             /\ future.result.kind = "value"
             /\ eof <=> Len(AfterTerminator) < DeclaredLength.val
             /\ future.result.value.body = substr(AfterTerminator, 0, DeclaredLength.val)
             /\ ~eof => Len(future.result.value.body) = DeclaredLength.val

\* C3: the declared length was reached with bytes to spare and the body is the
\* first three.
C3_Witness ==
    /\ ReadReturned /\ ~eof
    /\ DeclaredLength = [kind |-> "ok", val |-> 3]
    /\ Len(AfterTerminator) > 3
    /\ future.result.kind = "value"
    /\ future.result.value.body = <<"a", "b", "c">>

\* C4: for a response that is not chunked and whose Content-Length is absent
\* or 0, read_response returns only once a recv call reported the end of the
\* stream, and the body is all the bytes received after the header terminator
\* (empty when there were none).
C4_ReadUntilClose ==
    (/\ ReadEntered /\ rr.headers_done
     /\ ~DeclaredChunked
     /\ DeclaredLength = [kind |-> "ok", val |-> 0])
    => /\ task_pc \in {"read_response", "returned"}
       /\ task_pc = "read_response" => ~eof
       /\ task_pc = "returned" =>
             /\ eof
             /\ future.result.kind = "value"
             /\ future.result.value.body = AfterTerminator

\* C4: a response without Content-Length read to the peer's close, with a
\* body.
C4_Witness ==
    /\ ReadReturned /\ rr.headers_done /\ eof
    /\ ~DeclaredChunked
    /\ HeadersGet(rr.resp.headers, s_content_length) = <<>>
    /\ future.result.kind = "value"
    /\ future.result.value.body = AfterTerminator
    /\ Len(AfterTerminator) > 1

\* C5 as stated: read_response gives the error "Failed to parse response
\* headers" exactly when the stream ended before CRLF CRLF appeared in the
\* bytes received; once the terminator has been received the result is a
\* Response.
C5_ParseErrorIffNoTerminator ==
    (ReadEntered /\ TaskDone)
    => /\ future.state = "ready"
       /\ IF TerminatorAt = npos
          THEN eof /\ future.result = ParseError
          ELSE future.result.kind = "value"

\* C6 as stated: for a response whose Transfer-Encoding holds "chunked",
\* read_response returns as body all the bytes received after the header
\* terminator, undecoded.
C6_ChunkedBodyIsRaw ==
    (ReadReturned /\ rr.headers_done /\ DeclaredChunked)
    => /\ future.result.kind = "value"
       /\ future.result.value.body = AfterTerminator

\* What C7 says of every state of send_request.
C7_Written ==
    /\ sent <= Len(request_str)
    /\ wire = substr(request_str, 0, sent)
    /\ task_pc = "read_response" \/ ReadEntered => wire = request_str
    /\ (task_pc = "returned" /\ request_str # <<>> /\ sent < Len(request_str))
       => future.result = ErrorResult("Failed to send request")
    /\ (future.state = "ready" /\ future.result = ErrorResult("Failed to send request"))
       => sent < Len(request_str) /\ task_pc = "returned"

\* C7: whatever counts the transport returns, the bytes it accepted are the
\* bytes of the serialized request up to sent, in order and once each;
\* read_response is entered only with all of them accepted; a ::send call
\* reporting n <= 0 ends the task with "Failed to send request" and no byte
\* is handed over after it; and the loop of send_request ends.
C7_FullWrite ==
    /\ []C7_Written
    /\ [][(task_pc = "send_request" /\ task_pc' = "send_request") => sent' > sent]_vars
    /\ [][(task_pc = "send_request" /\ task_pc' = "returned") => wire' = wire]_vars
    /\ (task_pc = "send_request") ~> (task_pc # "send_request")

\* C7: send_request has returned success, all of the request accepted.
C7_Witness ==
    /\ task_pc = "read_response"
    /\ wire = request_str
    /\ Len(request_str) > 1

\* C8: after Client::get or Client::post on a URL string that URL::parse
\* rejects, the future returned is ready and holds the parse error, and
\* nothing else happened or ever happens: no getaddrinfo call, no socket, no
\* task.
C8_InvalidUrlShortCircuits ==
    (call.op \in {"get", "post"} /\ ~URLparse(call.url).ok)
    => /\ future = ReadyFuture(ErrorResult(URLparse(call.url).error))
       /\ task_pc = "none"
       /\ resolves = 0
       /\ sock = -1
       /\ sockets = <<>>

\* C8: post on "http:/h", which holds no "://".
C8_Witness ==
    /\ call.op = "post" /\ call.url = u_oneslash /\ call.body = b_hi
    /\ future.state = "ready" /\ future.result.kind = "error"
    /\ task_pc = "none"

\* The routes whose method and path equal those of the parsed request.
MatchingRoutes(r) ==
    {k \in 1..Len(m_Routes) : m_Routes[k].method = r.method /\ m_Routes[k].path = r.path}

\* C9 for one request read.
C9_RoutedRight(c, parsed) ==
    /\ Len(c.invoked) <= 1
    /\ IF parsed.ok /\ MatchingRoutes(parsed.value) # {}
       THEN c.invoked = <<SetMin(MatchingRoutes(parsed.value))>>
       ELSE /\ c.invoked = <<>>
            /\ c.pc # "threw"
            /\ c.resp.status_code = 404
            /\ c.resp.body = s_NotFound
            /\ c.response_str = build_response(NewResponse(404, s_NotFound))

\* C9: for every request the server read, the handlers invoked are at most
\* one, that of the first route in registration order whose method and path
\* equal the parsed request's method and path (the query string not being
\* part of the path); when no route matches none is invoked and the response
\* is 404 with the body "Not Found".
C9_FirstMatchRouting ==
    \A i \in 1..Len(conns) :
        conns[i].n > 0 => C9_RoutedRight(conns[i], parse_request(conns[i].request_data))

\* C9: two routes are registered for GET /a; a request for /a?x=1 invoked
\* the first and not the second.
C9_Witness ==
    \E i \in 1..Len(conns) :
        /\ conns[i].request_data = q_get_a_query
        /\ Len(m_Routes) = 2
        /\ m_Routes[1].path = s_path_a /\ m_Routes[1].method = "GET"
        /\ m_Routes[2].path = s_path_a /\ m_Routes[2].method = "GET"
        /\ m_Routes[1].handler # m_Routes[2].handler
        /\ conns[i].invoked = <<1>>

\* The handler invoked for the request of c raised a fault.
HandlerFaulted(c) ==
    /\ c.invoked # <<>>
    /\ m_Routes[c.invoked[1]].handler \in {"throw_std", "throw_other"}

\* C10 as stated: whatever a handler throws, handle_client turns it into a
\* 500 response, goes on to send and close, and the fault neither leaves
\* handle_client into Server::run nor terminates the process.
C10_FaultsContained ==
    /\ process = "running"
    /\ run_pc # "threw"
    /\ \A i \in 1..Len(conns) :
          /\ conns[i].pc # "threw"
          /\ (conns[i].n > 0 /\ HandlerFaulted(conns[i]))
             => /\ conns[i].resp.status_code = 500
                /\ substr(conns[i].resp.body, 0, Len(s_Error)) = s_Error

\* The descriptors accept returned.
ConnSockets == {fd \in 1..Len(sockets) : sockets[fd].owner = "conn"}

\* The handle_client invocations the descriptor fd was passed to.
HandlersOf(fd) == {i \in 1..Len(conns) : conns[i].fd = fd}

\* C11 as stated: every socket accept returned is passed to exactly one
\* handle_client invocation, is never closed twice, and has been closed
\* exactly once when that invocation has ended, on whatever path (failed
\* read, no route, handler returning, handler throwing).
C11_ConnectionSocketOwned ==
    \A fd \in ConnSockets :
        /\ Cardinality(HandlersOf(fd)) = 1
        /\ sockets[fd].closes <= 1
        /\ \A i \in HandlersOf(fd) :
              /\ conns[i].pc \in {"done", "threw"} => sockets[fd].closes = 1
              /\ conns[i].pc \in {"recv", "send"} => sockets[fd].closes = 0

\* The strings that contain "://", decided letter by letter.
HasSchemeSeparator(s) ==
    \E i \in 1..(Len(s) - 2) : s[i] = ":" /\ s[i + 1] = "/" /\ s[i + 2] = "/"

\* C20: URL::parse returns an error for every input that does not contain
\* "://" (the empty string included) and a URL value for every input that
\* contains it.
C20_ParseErrorIffNoSeparator ==
    url.kind = "returned" =>
        /\ url.result.ok <=> HasSchemeSeparator(raw_url)
        /\ ~url.result.ok => url.result.error = "Invalid URL: missing scheme"

\* URL::parse has returned the error for an input that holds ":/" but not
\* "://".
C20_Witness ==
    /\ url.kind = "returned"
    /\ raw_url = <<"h", ":", "/", "h">>
    /\ ~url.result.ok

\* Two letters that are equal up to case.
SameLetter(c, d) ==
    c = d \/ \E i \in 1..26 : {c, d} = {UpperChars[i], LowerChars[i]}

\* Two keys that are equal case-insensitively.
SameKey(k1, k2) ==
    Len(k1) = Len(k2) /\ \A i \in 1..Len(k1) : SameLetter(k1[i], k2[i])

\* The set calls made with a key equal to k case-insensitively.
SetsOf(k) == {i \in 1..Len(sets) : SameKey(sets[i].key, k)}

\* The keys asked for: every casing of the keys set, and a key never set.
QueryKeys == HeaderKeys \cup {k_aB, k_d}

\* C19: after any sequence of set calls the store holds at most one entry per
\* case-insensitive key; for every casing k of a key, has(k) is true iff a set
\* with that key (case-insensitively) occurred and get(k) is the value of the
\* last such set; get of a key never set is the empty string.
C19_HeaderStore ==
    /\ \A k1 \in DOMAIN data, k2 \in DOMAIN data : SameKey(k1, k2) => k1 = k2
    /\ \A k \in QueryKeys :
          /\ HeadersHas(data, k) <=> SetsOf(k) # {}
          /\ HeadersGet(data, k) =
                IF SetsOf(k) = {} THEN <<>>
                ELSE sets[CHOOSE i \in SetsOf(k) : \A j \in SetsOf(k) : j <= i].value

\* A key was set twice in different casings with different values, and another
\* key between them: one entry holds the later value.
C19_Witness ==
    /\ Len(sets) = 3
    /\ sets[1] = [key |-> k_Ab, value |-> v_1]
    /\ sets[2].key = k_C
    /\ sets[3] = [key |-> k_AB, value |-> v_2]
    /\ HeadersGet(data, k_aB) = v_2
    /\ Cardinality(DOMAIN data) = 2

\* The set_header calls made with the key Content-Length in any casing.
ExplicitContentLength ==
    {i \in 1..Len(calls) : calls[i].op = "set_header" /\ SameKey(calls[i].key, s_ContentLength)}

SetBodyCalls == {i \in 1..Len(calls) : calls[i].op = "set_body"}

\* C18 as stated: on a Request whose Content-Length was never set explicitly,
\* after any sequence of set_body calls the Content-Length header is the
\* decimal byte length of the current body.
C18_ContentLengthIsBodyLength ==
    (ExplicitContentLength = {} /\ SetBodyCalls # {}) =>
        HeadersGet(request.headers, s_ContentLength) = to_string(Len(request.body))

\* The thread in run() is inside the accept loop.
InAcceptLoop == run_pc \in {"loop", "accept", "inline"}

\* C14 as stated: run() passes its loop test only with the running flag set;
\* once the flag is clear (stop() was called, or no start() succeeded) a run()
\* that is in its loop eventually returns, or is left by the handler it was
\* executing inline (that handler did not return); and no connection is
\* accepted while the flag is clear.
C14_ShutdownLiveness ==
    /\ [][(run_pc = "loop" /\ run_pc' = "accept") => m_IsRunning]_vars
    /\ [][Len(conns') > Len(conns) => m_IsRunning]_vars
    /\ (InAcceptLoop /\ ~m_IsRunning) ~> (run_pc \in {"returned", "threw"})

\* What holds of C14 in spite of the escaping handler fault: the same, with the
\* end of the process by std::terminate as a third outcome.
C14_ReturnsUnlessTerminated ==
    /\ [][(run_pc = "loop" /\ run_pc' = "accept") => m_IsRunning]_vars
    /\ [][Len(conns') > Len(conns) => m_IsRunning]_vars
    /\ (InAcceptLoop /\ ~m_IsRunning) ~>
           (run_pc \in {"returned", "threw"} \/ process = "terminated")

\* The handle_client invocations in progress.
Handling == {i \in 1..Len(conns) : conns[i].pc \in {"recv", "send"}}

\* C15: with is_multithreaded false at most one connection is being handled
\* at any time; it is the one accepted last, handled on the thread of run();
\* every connection accepted before it has been read, routed, answered and
\* closed; and while run() is at its loop test or in accept no connection is
\* being handled, so the connections are handled in the order of accept.
C15_Serialized ==
    ~is_multithreaded =>
        /\ Cardinality(Handling) <= 1
        /\ \A i \in Handling :
              /\ i = Len(conns)
              /\ conns[i].inline
              /\ run_pc = "inline"
        /\ \A i \in 1..(Len(conns) - 1) :
              conns[i].pc = "done" /\ sockets[conns[i].fd].closes = 1
        /\ run_pc \in {"loop", "accept"} =>
              \A i \in 1..Len(conns) :
                  conns[i].pc = "done" /\ sockets[conns[i].fd].closes = 1

\* The second connection is being handled, after the first one was answered
\* and closed.
C15_Witness ==
    /\ ~is_multithreaded
    /\ Len(conns) = 2
    /\ conns[1].pc = "done" /\ conns[1].wrote = 2
    /\ conns[2].pc = "send"
    /\ run_pc = "inline"

\* C16: in multithreaded mode every accepted connection is handled off the
\* thread of run(), which goes back to its loop; stop() can be called and
\* return whatever the handler threads are doing, and a stop() call changes
\* nothing of a handle_client invocation: it neither signals nor waits.
C16_NoShutdownSynchronization ==
    /\ [](is_multithreaded =>
            /\ run_pc # "inline"
            /\ \A i \in 1..Len(conns) : ~conns[i].inline)
    /\ [](process = "running" => ENABLED Stop)
    /\ [][(m_IsRunning /\ ~m_IsRunning') => (conns' = conns /\ m_Routes' = m_Routes)]_vars

\* stop() has returned (flag clear, listening socket closed) while a handler
\* thread is in handle_client before its recv returns: it has still to read
\* the routing table.
C16_Witness ==
    /\ is_multithreaded
    /\ starts > 0 /\ ~m_IsRunning /\ server_socket = -1
    /\ process = "running"
    /\ \E i \in 1..Len(conns) : conns[i].pc = "recv" /\ ~conns[i].inline
    /\ m_Routes # <<>>

StartErrors == {"Failed to create socket", "Failed to bind to port", "Failed to listen"}

\* C17: a start() call in which socket, bind or listen fails returns one of
\* the three errors, leaves the running flag as it was and has closed the
\* socket it opened; a start() call in which all three succeed returns success
\* with the flag set and m_Config.server_socket an open listening socket. While
\* the last start() call is a failed one, no connection is accepted.
C17_StartAtomic ==
    /\ [][starts' # starts =>
            IF start_result'.ok
            THEN /\ m_IsRunning'
                 /\ IsOpen(sockets', server_socket')
                 /\ sockets'[server_socket'].listening
                 /\ Len(sockets') = Len(sockets) + 1
            ELSE /\ m_IsRunning' = m_IsRunning
                 /\ start_result'.error \in StartErrors
                 /\ \A fd \in (Len(sockets) + 1)..Len(sockets') : sockets'[fd].closes = 1
                 /\ \A fd \in 1..Len(sockets) : sockets'[fd] = sockets[fd]
                 /\ ~IsOpen(sockets', server_socket')]_vars
    /\ [][(starts > 0 /\ ~start_result.ok) => Len(conns') = Len(conns)]_vars

\* bind failed in a start() call: the error is returned, the flag is clear, the
\* socket the call opened is closed, and run() was called and has returned
\* without a connection.
C17_Witness ==
    /\ starts = 1
    /\ ~start_result.ok /\ start_result.error = "Failed to bind to port"
    /\ ~m_IsRunning
    /\ Len(sockets) = 1 /\ sockets[1].closes = 1
    /\ run_pc = "returned" /\ conns = <<>>

\* The client's task was served by the server: it sent its request and its
\* read_response has returned.
Served == ReadEntered /\ TaskDone

\* The first route of the table is the echo route POST /a.
EchoRouted == Len(m_Routes) >= 1 /\ m_Routes[1] = EchoRoutes[1]

\* C12 as stated: with the echo route registered, for every body B sent with
\* Client::post and every way the transport splits the request and the
\* response into deliveries, the client's result is a success whose body is B.
C12_EchoRoundTrip ==
    (call.op = "post" /\ EchoRouted /\ Served) =>
        /\ future.state = "ready"
        /\ future.result.kind = "value"
        /\ future.result.value.body = call.body

\* The table holds the route GET /a whose handler returns Response(200, "ok").
OkRouted == Len(m_Routes) >= 2 /\ m_Routes[2] = EchoRoutes[2]

\* C13 as stated: with a route GET /a whose handler returns
\* Response(200, "ok") on a started, running server, Client::get for /a
\* completes with a success whose status_code is 200 and whose body is "ok".
C13_ResponseRoundTrip ==
    (call.op = "get" /\ OkRouted /\ Served) =>
        /\ future.state = "ready"
        /\ future.result.kind = "value"
        /\ future.result.value.status_code = 200
        /\ future.result.value.body = s_ok

\* Where the first "://" of s stands (1-based), decided letter by letter.
SeparatorAt(s) ==
    CHOOSE i \in 1..(Len(s) - 2) :
        /\ s[i] = ":" /\ s[i + 1] = "/" /\ s[i + 2] = "/"
        /\ \A j \in 1..(i - 1) : ~(s[j] = ":" /\ s[j + 1] = "/" /\ s[j + 2] = "/")

\* The text of s after its first "://".
AfterSeparator(s) == SubSeq(s, SeparatorAt(s) + 3, Len(s))

\* The indexes of t that hold one of the letters cs.
IndexesOf(t, cs) == {j \in 1..Len(t) : t[j] \in cs}

\* The least of a set of indexes, or otherwise.
LeastOr(S, otherwise) == IF S = {} THEN otherwise ELSE CHOOSE m \in S : \A x \in S : m <= x

\* The host segment of s: the text after "://" up to the first '/' or '?'.
HostSegment(s) ==
    SubSeq(AfterSeparator(s), 1,
           LeastOr(IndexesOf(AfterSeparator(s), {"/", "?"}), Len(AfterSeparator(s)) + 1) - 1)

\* URL::parse has returned a URL for raw_url.
Parsed == url.kind = "returned" /\ url.result.ok

\* C21 as stated: every successfully parsed URL has a non-empty scheme, host,
\* port and path.
C21_WellFormed ==
    Parsed =>
        /\ url.result.value.scheme # <<>>
        /\ url.result.value.host # <<>>
        /\ url.result.value.port # <<>>
        /\ url.result.value.path # <<>>

\* C22: for every successfully parsed URL whose host segment holds no ':' the
\* host is that segment and the port is "443" for the scheme https and "80"
\* for the scheme http; when the segment holds a ':' the host is the text
\* before the first ':' and the port is the text after it, whatever the scheme.
C22_PortDefaulting ==
    Parsed =>
        LET seg == HostSegment(raw_url)
            scheme == SubSeq(raw_url, 1, SeparatorAt(raw_url) - 1)
            colon == LeastOr(IndexesOf(seg, {":"}), 0)
        IN  IF colon = 0
            THEN /\ url.result.value.host = seg
                 /\ scheme = s_https => url.result.value.port = s_443
                 /\ scheme = s_http => url.result.value.port = s_80
            ELSE /\ url.result.value.host = SubSeq(seg, 1, colon - 1)
                 /\ url.result.value.port = SubSeq(seg, colon + 1, Len(seg))

\* "https://h:h/" was parsed: the explicit port overrides the default of
\* https.
C22_Witness ==
    /\ Parsed
    /\ raw_url = s_https \o s_scheme_sep \o <<"h", ":", "h", "/">>
    /\ url.result.value.host = <<"h">>
    /\ url.result.value.port = <<"h">>

\* C23 as stated: when the host segment is ended by '?' or by the end of the
\* input the path is "/"; the query is the text from the first '?' after
\* "://" to the end, or empty without a '?'; and the path holds no character
\* standing at or after that '?': it is "/" or a part of the text before it.
C23_PathQuerySplit ==
    Parsed =>
        LET rest == AfterSeparator(raw_url)
            q == LeastOr(IndexesOf(rest, {"?"}), Len(rest) + 1)
            ender == LeastOr(IndexesOf(rest, {"/", "?"}), Len(rest) + 1)
        IN  /\ (ender = Len(rest) + 1 \/ rest[ender] = "?") =>
                   url.result.value.path = s_slash
            /\ url.result.value.query = SubSeq(rest, q, Len(rest))
            /\ \/ url.result.value.path = s_slash
               \/ \E a \in 1..(q - 1), b \in 1..(q - 1) :
                     url.result.value.path = SubSeq(rest, a, b)

C25_ResponseDelivered ==
    [][\A i \in 1..Len(conns) :
          (conns[i].pc = "send" /\ conns'[i].pc = "done") => conns'[i].wrote = 2]_vars

\* What read_response gives for the bytes s arriving in one delivery and then
\* the close: the error, the exception or the Response.
OneDelivery(s) ==
    IF s = <<>> THEN ReadResult(ReadStart)
    ELSE IF ReadIteration(ReadStart, s).ctl = "throw"
    THEN [kind |-> "exception", what |-> ReadIteration(ReadStart, s).thrown]
    ELSE ReadResult(ReadIteration(ReadStart, s).rr)

\* C26: however the peer's bytes are split into recv deliveries, read_response
\* is where one delivery of the same bytes puts it: inside the loop its locals
\* are those after one delivery of the bytes received so far, and its outcome
\* (error, exception, or status, headers and body) is that of one delivery of
\* the bytes received, and of the peer's whole stream when the stream was
\* received to its end or the loop was left on a complete body.
C26_ChunkingIndependent ==
    /\ (task_pc = "read_response" /\ rpos > 0) =>
           rr = ReadIteration(ReadStart, Delivered).rr
    /\ (TaskDone /\ ReadEntered) =>
           /\ future.result = OneDelivery(Delivered)
           /\ (~eof \/ rpos = Len(stream)) => future.result = OneDelivery(stream)

\* The deliveries so far end inside the CRLF CRLF of a stream with a body after
\* it: the next recv completes the terminator.
C26_Witness ==
    /\ task_pc = "read_response"
    /\ find(stream, s_CRLFCRLF, 0) # npos
    /\ rpos > find(stream, s_CRLFCRLF, 0)
    /\ rpos < find(stream, s_CRLFCRLF, 0) + 4
    /\ Len(stream) > find(stream, s_CRLFCRLF, 0) + 4
    /\ ~rr.headers_done

\* The sockets Server::start opened.
ListenSockets == {fd \in 1..Len(sockets) : sockets[fd].owner = "listen"}

\* stop() (or the destructor) was the last call on the server.
Stopped == starts > 0 /\ ~m_IsRunning /\ server_socket = -1

\* C27 as stated: over every sequence of start(), stop() and destructor calls
\* no listening socket the server opened is closed a second time, an open one
\* is the one m_Config.server_socket names, and after stop() every one of them
\* has been closed exactly once.
C27_ListenSocketsAccounted ==
    \A fd \in ListenSockets :
        /\ sockets[fd].closes <= 1
        /\ sockets[fd].closes = 0 => server_socket = fd
        /\ Stopped => sockets[fd].closes = 1

\* C28 as stated: in every reachable state, if m_IsRunning is true then
\* m_Config.server_socket names an open listening socket of this server; and
\* when a stop() call returns the flag is false and server_socket is -1.
C28_RunningImpliesListening ==
    /\ [](m_IsRunning =>
            /\ IsOpen(sockets, server_socket)
            /\ sockets[server_socket].owner = "listen"
            /\ sockets[server_socket].listening)
    /\ [][(starts' = starts) => (~m_IsRunning' /\ server_socket' = -1)]_<<m_IsRunning, server_socket, starts, sockets>>

====
